---- MODULE Spec2Model ----
(***************************************************************************)
(* Model of the recursive-descent CDDL parser (src/src/parser.rs), under   *)
(* Spec, and of the parent visitor that indexes a parsed Document          *)
(* (src/src/validator/parent_visitor.rs), under SpecPV.                    *)
(*                                                                         *)
(* The parser pulls tokens from an external lexer through next_token and   *)
(* keeps two tokens of lookahead (cur_token, peek_token).  Each parse      *)
(* function is translated into one action per basic block; calls between   *)
(* parse functions go through an explicit stack of return labels.  The     *)
(* lexer is external: each pull delivers any token of a small alphabet, or *)
(* a lexer error, and end-of-input is sticky.  The sequence of everything  *)
(* the lexer delivered is kept in `pulled`, so that every property can be  *)
(* stated against the input stream.                                        *)
(***************************************************************************)
EXTENDS Integers, Sequences, FiniteSets, TLC

\* ------------------------------------------------------------------ bounds
\* Longest token stream the lexer delivers before end-of-input.
MaxPulls == 6
\* Cap on the iterations of a loop that does not consume input.
MaxIter == 3

\* ------------------------------------------------------------------ tokens
Idents == {"a", "b"}
Texts == {"x"}

IDENT(i) == [k |-> "IDENT", v |-> i]
TEXT(s) == [k |-> "VALUE", v |-> s, text |-> TRUE]
INTV == [k |-> "VALUE", v |-> "1", text |-> FALSE]
RANGE(l, u, i) == [k |-> "RANGE", l |-> l, u |-> u, i |-> i]
ASSIGN == [k |-> "ASSIGN"]
TCHOICEALT == [k |-> "TCHOICEALT"]
GCHOICEALT == [k |-> "GCHOICEALT"]
TCHOICE == [k |-> "TCHOICE"]
LANGLEBRACKET == [k |-> "LANGLEBRACKET"]
RANGLEBRACKET == [k |-> "RANGLEBRACKET"]
COMMA == [k |-> "COMMA"]
LPAREN == [k |-> "LPAREN"]
EOF == [k |-> "EOF"]

\* The outcome of a lexer pull that failed.
LexErr == [k |-> "LEXERROR"]

Alphabet ==
  {IDENT(i) : i \in Idents} \cup {TEXT(s) : s \in Texts}
    \cup {INTV, RANGE("1", "2", TRUE), ASSIGN, TCHOICEALT, GCHOICEALT, TCHOICE,
          LANGLEBRACKET, RANGLEBRACKET, COMMA, LPAREN, EOF}

\* ------------------------------------------------------------------- state
VARIABLES
  entry,                      \* the function the caller invokes
  pulled,                     \* everything the lexer delivered, in order
  cur_token, peek_token,      \* Parser.cur_token, Parser.peek_token
  errors,                     \* Parser.errors
  stack,                      \* return labels; the last one is the position
  ret,                        \* the Result the last returning function gave
  outcome,                    \* "new" | "running" | "ok" | "err" | ...
  rules,                      \* parse_cddl: c.rules
  name, gp,                   \* parse_rule: name, gp
  is_type_choice_alternate,   \* parse_rule
  is_group_choice_alternate,  \* parse_rule
  t,                          \* parse_type: t.0
  generic_params,             \* parse_genericparm: generic_params.0
  generic_args,               \* parse_genericarg: generic_args.0
  cddl,                       \* ParentVisitor::new: the Document walked
                              \* (empty when a method is called directly)
  arena,                      \* ParentVisitor.arena_tree.arena
  frames,                     \* the visit_* calls in progress, innermost last
  built                       \* "idle" | "visiting" | "ok"

parserVars == <<cur_token, peek_token, errors>>
ruleVars == <<name, gp, is_type_choice_alternate, is_group_choice_alternate>>
localVars == <<rules, ruleVars, t, generic_params, generic_args>>
pvVars == <<cddl, arena, frames, built>>
psVars == <<entry, pulled, parserVars, stack, ret, outcome, localVars>>
vars == <<psVars, pvVars>>

Entries ==
  {"parse_cddl", "parse_rule", "parse_type", "parse_genericparm",
   "parse_genericarg"}

\* First label of each parse function.
EntryLabel(e) ==
  CASE e = "parse_cddl" -> "cddl_loop"
    [] e = "parse_rule" -> "rule_name"
    [] e = "parse_type" -> "type_first"
    [] e = "parse_genericparm" -> "gp_enter"
    [] e = "parse_genericarg" -> "ga_enter"

\* ------------------------------------------------------------- AST values
Identifier(tok) == [ident |-> tok]
Type2Value(s) == [tag |-> "Value", text |-> s]
Type2Typename(i) == [tag |-> "Typename", ident |-> Identifier(IDENT(i))]
NoOperator == [some |-> FALSE]
RangeOp(i, upper) == [some |-> TRUE, op |-> "RangeOp", incl |-> i, t2 |-> upper]
Type1(t2, op) == [type2 |-> t2, operator |-> op]
NoGenericParm == [some |-> FALSE]
SomeGenericParm(ps) == [some |-> TRUE, params |-> ps]
TypeRule(n, g, tca, v) ==
  [tag |-> "Type", name |-> Identifier(n), generic_param |-> g,
   is_type_choice_alternate |-> tca, value |-> v]

\* Result values.
Ok(v) == [ok |-> TRUE, val |-> v, err |-> ""]
Err(m) == [ok |-> FALSE, val |-> <<>>, err |-> m]
NoRet == Err("none")

\* ------------------------------------------------------------------ lexer
\* What Lexer::next_token may deliver on the next pull.
LexerNext ==
  IF Len(pulled) > 0 /\ pulled[Len(pulled)].k = "EOF" THEN {EOF}
  ELSE IF Len(pulled) >= MaxPulls THEN {EOF}
  ELSE Alphabet \cup {LexErr}

IsErr(r) == r.k = "LEXERROR"

\* Parser::next_token with lexer outcome r: the swap always happens, the new
\* peek token is stored only when the lexer succeeded.
next_token(r) ==
  /\ pulled' = Append(pulled, r)
  /\ cur_token' = peek_token
  /\ peek_token' = IF IsErr(r) THEN cur_token ELSE r

cur_token_is(k) == cur_token.k = k
peek_token_is(k) == peek_token.k = k

\* ------------------------------------------------------------ control flow
Top == stack[Len(stack)]
At(l) == outcome = "running" /\ Len(stack) > 0 /\ Top = l
Front(s) == SubSeq(s, 1, Len(s) - 1)

Goto(l) ==
  /\ stack' = [stack EXCEPT ![Len(stack)] = l]
  /\ UNCHANGED <<ret, outcome>>

\* Call a parse function; the caller resumes at label `back`.
Call(callee, back) ==
  /\ stack' = Append([stack EXCEPT ![Len(stack)] = back], callee)
  /\ UNCHANGED <<ret, outcome>>

\* Return r to the caller, or to the user of the parser from the entry.
Return(r) ==
  /\ stack' = Front(stack)
  /\ ret' = r
  /\ outcome' = IF Len(stack) > 1 THEN outcome
                ELSE IF r.ok THEN "ok" ELSE "err"

\* -------------------------------------------------------------------- Init
Init ==
  /\ entry \in Entries
  /\ pulled = <<>>
  /\ cur_token = EOF
  /\ peek_token = EOF
  /\ errors = <<>>
  /\ stack = <<"new1">>
  /\ ret = NoRet
  /\ outcome = "new"
  /\ rules = <<>>
  /\ name = EOF
  /\ gp = NoGenericParm
  /\ is_type_choice_alternate = FALSE
  /\ is_group_choice_alternate = FALSE
  /\ t = <<>>
  /\ generic_params = <<>>
  /\ generic_args = <<>>
  /\ cddl = [rules |-> <<>>]
  /\ arena = <<>>
  /\ frames = <<>>
  /\ built = "idle"

\* ------------------------------------------------------------- Parser::new
\* The first p.next_token()? of Parser::new.
New1 ==
  /\ outcome = "new" /\ Top = "new1"
  /\ \E r \in LexerNext :
       /\ next_token(r)
       /\ IF IsErr(r)
            THEN /\ stack' = <<>>
                 /\ ret' = Err("LexError")
                 /\ outcome' = "new_err"
            ELSE /\ stack' = <<"new2">>
                 /\ UNCHANGED <<ret, outcome>>
  /\ UNCHANGED <<pvVars, entry, errors, localVars>>

\* The second p.next_token()? of Parser::new; then the caller invokes the
\* entry function on the parser.
New2 ==
  /\ outcome = "new" /\ Top = "new2"
  /\ \E r \in LexerNext :
       /\ next_token(r)
       /\ IF IsErr(r)
            THEN /\ stack' = <<>>
                 /\ ret' = Err("LexError")
                 /\ outcome' = "new_err"
            ELSE /\ stack' = <<EntryLabel(entry)>>
                 /\ outcome' = "running"
                 /\ UNCHANGED ret
  /\ UNCHANGED <<pvVars, entry, errors, localVars>>

\* ------------------------------------------------------------- parse_type2
\* match &self.cur_token { ... }; self.next_token()?; t2
ParseType2 ==
  /\ At("type2")
  /\ IF cur_token.k \in {"VALUE", "IDENT"}
       THEN \E r \in LexerNext :
              /\ next_token(r)
              /\ IF IsErr(r) THEN Return(Err("LexError"))
                 ELSE IF cur_token.k = "IDENT"
                   THEN Return(Ok(Type2Typename(cur_token.v)))
                 ELSE IF cur_token.text
                   THEN Return(Ok(Type2Value(cur_token.v)))
                 ELSE Return(Err("bad value"))
       ELSE /\ Return(Err("Unknown"))
            /\ UNCHANGED <<pulled, cur_token, peek_token>>
  /\ UNCHANGED <<pvVars, entry, errors, localVars>>

\* ------------------------------------------------------------- parse_type1
\* A range token yields a Type1 at once, without advancing.
ParseType1 ==
  /\ At("type1")
  /\ IF cur_token_is("RANGE")
       THEN Return(Ok(Type1(Type2Value(cur_token.l),
                            RangeOp(cur_token.i, Type2Value(cur_token.u)))))
       ELSE Call("type2", "type1_wrap")
  /\ UNCHANGED <<pvVars, entry, pulled, parserVars, localVars>>

\* type2: self.parse_type2()?, operator: None
ParseType1Wrap ==
  /\ At("type1_wrap")
  /\ IF ret.ok THEN Return(Ok(Type1(ret.val, NoOperator)))
     ELSE Return(ret)
  /\ UNCHANGED <<pvVars, entry, pulled, parserVars, localVars>>

\* -------------------------------------------------------------- parse_type
\* let mut t = Type(Vec::new()); t.0.push(self.parse_type1()?)
ParseTypeFirst ==
  /\ At("type_first")
  /\ t' = <<>>
  /\ Call("type1", "type_push")
  /\ UNCHANGED <<pvVars, entry, pulled, parserVars, rules, ruleVars, generic_params,
                 generic_args>>

\* ParseTypePush with the parsed Type1 put in front of the choices.
ParseTypePush_Prepend ==
  /\ At("type_push")
  /\ IF ret.ok
       THEN /\ t' = <<ret.val>> \o t
            /\ Goto("type_loop")
       ELSE /\ Return(ret)
            /\ UNCHANGED t
  /\ UNCHANGED <<pvVars, entry, pulled, parserVars, rules, ruleVars, generic_params,
                 generic_args>>

\* The push of a parsed Type1, or the `?` on a failed one.
ParseTypePush ==
  /\ At("type_push")
  /\ IF ret.ok
       THEN /\ t' = Append(t, ret.val)
            /\ Goto("type_loop")
       ELSE /\ Return(ret)
            /\ UNCHANGED t
  /\ UNCHANGED <<pvVars, entry, pulled, parserVars, rules, ruleVars, generic_params,
                 generic_args>>

\* while self.cur_token_is(Token::TCHOICE) { self.next_token()?; ... } Ok(t)
ParseTypeLoop ==
  /\ At("type_loop")
  /\ IF cur_token_is("TCHOICE")
       THEN \E r \in LexerNext :
              /\ next_token(r)
              /\ IF IsErr(r) THEN Return(Err("LexError"))
                 ELSE Call("type1", "type_push")
       ELSE /\ Return(Ok(t))
            /\ UNCHANGED <<pulled, cur_token, peek_token>>
  /\ UNCHANGED <<pvVars, entry, errors, localVars>>

\* ------------------------------------------------------- parse_genericparm
\* self.next_token()?; let mut generic_params = GenericParm(Vec::new())
GenericParmEnter ==
  /\ At("gp_enter")
  /\ \E r \in LexerNext :
       /\ next_token(r)
       /\ IF IsErr(r) THEN Return(Err("LexError")) ELSE Goto("gp_loop")
  /\ generic_params' = <<>>
  /\ UNCHANGED <<pvVars, entry, errors, rules, ruleVars, t, generic_args>>

\* One turn of while !self.cur_token_is(Token::RANGLEBRACKET) { match ... }
GenericParmLoop ==
  /\ At("gp_loop")
  /\ ~cur_token_is("RANGLEBRACKET")
  /\ IF cur_token.k \in {"IDENT", "COMMA"}
       THEN /\ generic_params' =
                 IF cur_token_is("IDENT")
                   THEN Append(generic_params, Identifier(cur_token))
                   ELSE generic_params
            /\ \E r \in LexerNext :
                 /\ next_token(r)
                 /\ IF IsErr(r) THEN Return(Err("LexError"))
                    ELSE Goto("gp_loop")
       ELSE /\ Return(Err("Illegal token"))
            /\ UNCHANGED <<pulled, cur_token, peek_token, generic_params>>
  /\ UNCHANGED <<pvVars, entry, errors, rules, ruleVars, t, generic_args>>

\* GenericParmExit without the advance past `>`.
GenericParmExit_NoAdvance ==
  /\ At("gp_loop")
  /\ cur_token_is("RANGLEBRACKET")
  /\ Return(Ok(generic_params))
  /\ UNCHANGED <<pvVars, entry, pulled, parserVars, localVars>>

\* The loop ends at `>`: self.next_token()?; Ok(generic_params)
GenericParmExit ==
  /\ At("gp_loop")
  /\ cur_token_is("RANGLEBRACKET")
  /\ \E r \in LexerNext :
       /\ next_token(r)
       /\ IF IsErr(r) THEN Return(Err("LexError"))
          ELSE Return(Ok(generic_params))
  /\ UNCHANGED <<pvVars, entry, errors, localVars>>

\* -------------------------------------------------------- parse_genericarg
\* self.next_token()?; let mut generic_args = GenericArg(Vec::new())
GenericArgEnter ==
  /\ At("ga_enter")
  /\ \E r \in LexerNext :
       /\ next_token(r)
       /\ IF IsErr(r) THEN Return(Err("LexError")) ELSE Goto("ga_loop")
  /\ generic_args' = <<>>
  /\ UNCHANGED <<pvVars, entry, errors, rules, ruleVars, t, generic_params>>

\* while !self.cur_token_is(Token::RANGLEBRACKET) { self.parse_type1()? ...
GenericArgLoop ==
  /\ At("ga_loop")
  /\ ~cur_token_is("RANGLEBRACKET")
  /\ Len(generic_args) < MaxPulls + MaxIter
  /\ Call("type1", "ga_push")
  /\ UNCHANGED <<pvVars, entry, pulled, parserVars, localVars>>

\* GenericArgPush without the advance past a comma.
GenericArgPush_KeepComma ==
  /\ At("ga_push")
  /\ IF ret.ok
       THEN /\ generic_args' = Append(generic_args, ret.val)
            /\ Goto("ga_loop")
       ELSE /\ Return(ret)
            /\ UNCHANGED generic_args
  /\ UNCHANGED <<pvVars, entry, pulled, parserVars, rules, ruleVars, t, generic_params>>

\* generic_args.0.push(..); if self.cur_token_is(Token::COMMA) { next_token }
GenericArgPush ==
  /\ At("ga_push")
  /\ IF ret.ok
       THEN /\ generic_args' = Append(generic_args, ret.val)
            /\ IF cur_token_is("COMMA")
                 THEN \E r \in LexerNext :
                        /\ next_token(r)
                        /\ IF IsErr(r) THEN Return(Err("LexError"))
                           ELSE Goto("ga_loop")
                 ELSE /\ Goto("ga_loop")
                      /\ UNCHANGED <<pulled, cur_token, peek_token>>
       ELSE /\ Return(ret)
            /\ UNCHANGED <<pulled, cur_token, peek_token, generic_args>>
  /\ UNCHANGED <<pvVars, entry, errors, rules, ruleVars, t, generic_params>>

\* The loop ends at `>`: self.next_token()?; Ok(generic_args)
GenericArgExit ==
  /\ At("ga_loop")
  /\ cur_token_is("RANGLEBRACKET")
  /\ \E r \in LexerNext :
       /\ next_token(r)
       /\ IF IsErr(r) THEN Return(Err("LexError"))
          ELSE Return(Ok(generic_args))
  /\ UNCHANGED <<pvVars, entry, errors, localVars>>

\* -------------------------------------------------------------- parse_rule
\* The error message peek_error formats from the expected and the peek token.
PeekErrorMsg(k) == [expected |-> k, got |-> peek_token]

peek_error(k) == errors' = Append(errors, PeekErrorMsg(k))

\* expect_peek(t): on a matching peek token the result is
\* self.next_token().is_ok(); otherwise peek_error is recorded and the
\* result is false.  onTrue / onFalse continue the caller.
expect_peek(k, onTrue, onFalse) ==
  IF peek_token_is(k)
    THEN /\ \E r \in LexerNext :
              /\ next_token(r)
              /\ IF IsErr(r) THEN onFalse ELSE onTrue
         /\ UNCHANGED errors
    ELSE /\ peek_error(k)
         /\ onFalse
         /\ UNCHANGED <<pulled, cur_token, peek_token>>

\* let name = match &self.cur_token {..}; if self.peek_token_is(`<`) {..}
ParseRuleName ==
  /\ At("rule_name")
  /\ IF cur_token_is("IDENT")
       THEN /\ name' = cur_token
            /\ IF peek_token_is("LANGLEBRACKET")
                 THEN /\ Call("gp_enter", "rule_gp")
                      /\ UNCHANGED gp
                 ELSE /\ gp' = NoGenericParm
                      /\ Goto("rule_assign")
       ELSE /\ Return(Err("expected IDENT"))
            /\ UNCHANGED <<name, gp>>
  /\ UNCHANGED <<pvVars, entry, pulled, parserVars, rules, is_type_choice_alternate,
                 is_group_choice_alternate, t, generic_params, generic_args>>

\* gp = Some(self.parse_genericparm()?)
ParseRuleGenericParm ==
  /\ At("rule_gp")
  /\ IF ret.ok
       THEN /\ gp' = SomeGenericParm(ret.val)
            /\ Goto("rule_assign")
       ELSE /\ Return(ret)
            /\ UNCHANGED gp
  /\ UNCHANGED <<pvVars, entry, pulled, parserVars, rules, name,
                 is_type_choice_alternate, is_group_choice_alternate, t,
                 generic_params, generic_args>>

\* !self.expect_peek(&Token::ASSIGN)
ParseRuleExpectAssign ==
  /\ At("rule_assign")
  /\ expect_peek("ASSIGN", Goto("rule_flags"), Goto("rule_tchoicealt"))
  /\ UNCHANGED <<pvVars, entry, localVars>>

\* && !self.expect_peek(&Token::TCHOICEALT)
ParseRuleExpectTChoiceAlt ==
  /\ At("rule_tchoicealt")
  /\ expect_peek("TCHOICEALT", Goto("rule_flags"), Goto("rule_gchoicealt"))
  /\ UNCHANGED <<pvVars, entry, localVars>>

\* && !self.expect_peek(&Token::GCHOICEALT) { return Err("Expected ASSIGN") }
ParseRuleExpectGChoiceAlt ==
  /\ At("rule_gchoicealt")
  /\ expect_peek("GCHOICEALT", Goto("rule_flags"),
                 Return(Err("Expected ASSIGN")))
  /\ UNCHANGED <<pvVars, entry, localVars>>

\* The two alternate flags, then self.next_token()? past the assignment.
ParseRuleFlags ==
  /\ At("rule_flags")
  /\ is_type_choice_alternate' = cur_token_is("TCHOICEALT")
  /\ is_group_choice_alternate' =
       (~cur_token_is("TCHOICEALT") /\ cur_token_is("GCHOICEALT"))
  /\ \E r \in LexerNext :
       /\ next_token(r)
       /\ IF IsErr(r) THEN Return(Err("LexError")) ELSE Goto("rule_body")
  /\ UNCHANGED <<pvVars, entry, errors, rules, name, gp, t, generic_params,
                 generic_args>>

\* ParseRuleBody that hands `(` to parse_type instead of stopping.
ParseRuleBody_NoPanic ==
  /\ At("rule_body")
  /\ Call("type_first", "rule_type")
  /\ UNCHANGED <<pvVars, entry, pulled, parserVars, localVars>>

\* if self.cur_token_is(Token::LPAREN) { unimplemented!() } else parse_type
ParseRuleBody ==
  /\ At("rule_body")
  /\ IF cur_token_is("LPAREN")
       THEN /\ stack' = <<>>
            /\ outcome' = "unimplemented"
            /\ ret' = Err("not yet implemented")
       ELSE Call("type_first", "rule_type")
  /\ UNCHANGED <<pvVars, entry, pulled, parserVars, localVars>>

\* t = self.parse_type()?; Ok(Rule::Type(TypeRule {..}))
ParseRuleType ==
  /\ At("rule_type")
  /\ IF ret.ok
       THEN Return(Ok(TypeRule(name, gp, is_type_choice_alternate, ret.val)))
       ELSE Return(ret)
  /\ UNCHANGED <<pvVars, entry, pulled, parserVars, localVars>>

\* -------------------------------------------------------------- parse_cddl
\* while self.cur_token != Token::EOF { ..self.parse_rule().. } Ok(c)
ParseCddlLoop ==
  /\ At("cddl_loop")
  /\ IF cur_token # EOF
       THEN Call("rule_name", "cddl_push")
       ELSE Return(Ok([rules |-> rules]))
  /\ UNCHANGED <<pvVars, entry, pulled, parserVars, localVars>>

\* c.rules.push(self.parse_rule()?)
ParseCddlPush ==
  /\ At("cddl_push")
  /\ IF ret.ok
       THEN /\ rules' = Append(rules, ret.val)
            /\ Goto("cddl_loop")
       ELSE /\ Return(ret)
            /\ UNCHANGED rules
  /\ UNCHANGED <<pvVars, entry, pulled, parserVars, ruleVars, t, generic_params,
                 generic_args>>

\* ---------------------------------------------------- reference grammar
\* The token-stream forms the properties speak about, as a recogniser that
\* is independent of the parser: it reads the delivered stream left to right
\* and collects the rule names, generic parameters and type choices.
\*   doc    : (IDENT `=` tt (`/` tt)*)* EOF        tt = IDENT | text | range
\*   grule  : IDENT `<` IDENT (`,` IDENT)* `>` `=` ty (`/` ty)* follow
\*   type   : ty (`/` ty)* follow                  ty = IDENT | text
\*   gparm  : `<` IDENT (`,` IDENT)* `>` follow
\*   garg   : `<` ty (`,` ty)* `>` follow
IsTy(tok) == tok.k = "IDENT" \/ (tok.k = "VALUE" /\ tok.text)
IsTt(tok) == IsTy(tok) \/ tok.k = "RANGE"
AssignKinds == {"ASSIGN", "TCHOICEALT", "GCHOICEALT"}

RefInit(st) == [st |-> st, names |-> <<>>, params |-> <<>>, items |-> <<>>,
                close |-> 0]

RefStep(a, tok, i) ==
  LET to(st) == [a EXCEPT !.st = st]
      nm(st) == [a EXCEPT !.st = st, !.names = Append(@, tok)]
      pm(st) == [a EXCEPT !.st = st, !.params = Append(@, tok)]
      it(st) == [a EXCEPT !.st = st, !.items = Append(@, tok)]
      cl(st) == [a EXCEPT !.st = st, !.close = i]
      dead == to("dead")
      k == tok.k
  IN CASE a.st = "doc" ->
            IF k = "IDENT" THEN nm("d_assign")
            ELSE IF k = "EOF" THEN to("done") ELSE dead
       [] a.st = "d_assign" -> IF k = "ASSIGN" THEN to("d_type") ELSE dead
       [] a.st = "d_type" -> IF IsTt(tok) THEN to("d_after") ELSE dead
       [] a.st = "d_after" ->
            IF k = "TCHOICE" THEN to("d_type")
            ELSE IF k = "IDENT" THEN nm("d_assign")
            ELSE IF k = "EOF" THEN to("done") ELSE dead
       [] a.st = "grule" -> IF k = "IDENT" THEN nm("g_lt") ELSE dead
       [] a.st = "g_lt" -> IF k = "LANGLEBRACKET" THEN to("g_param") ELSE dead
       [] a.st = "g_param" -> IF k = "IDENT" THEN pm("g_sep") ELSE dead
       [] a.st = "g_sep" ->
            IF k = "COMMA" THEN to("g_param")
            ELSE IF k = "RANGLEBRACKET" THEN to("g_assign") ELSE dead
       [] a.st = "g_assign" -> IF k = "ASSIGN" THEN to("type") ELSE dead
       [] a.st = "type" -> IF IsTy(tok) THEN it("t_after") ELSE dead
       [] a.st = "t_after" ->
            IF k = "TCHOICE" THEN to("type")
            ELSE IF k = "LEXERROR" THEN dead ELSE to("done")
       [] a.st = "gparm" -> IF k = "LANGLEBRACKET" THEN to("p_param") ELSE dead
       [] a.st = "p_param" -> IF k = "IDENT" THEN pm("p_sep") ELSE dead
       [] a.st = "p_sep" ->
            IF k = "COMMA" THEN to("p_param")
            ELSE IF k = "RANGLEBRACKET" THEN cl("follow") ELSE dead
       [] a.st = "garg" -> IF k = "LANGLEBRACKET" THEN to("a_arg") ELSE dead
       [] a.st = "a_arg" -> IF IsTy(tok) THEN it("a_sep") ELSE dead
       [] a.st = "a_sep" ->
            IF k = "COMMA" THEN to("a_arg")
            ELSE IF k = "RANGLEBRACKET" THEN cl("follow") ELSE dead
       [] a.st = "follow" -> IF k = "LEXERROR" THEN dead ELSE to("done")
       [] OTHER -> a

RECURSIVE RefRun(_, _, _)
RefRun(a, s, i) ==
  IF i > Len(s) THEN a ELSE RefRun(RefStep(a, s[i], i), s, i + 1)

\* The reading of the delivered stream as the form that starts in state st.
Ref(st) == RefRun(RefInit(st), pulled, 1)

\* The Type1 the grammar assigns to a type token.
RefType1(tok) ==
  Type1(IF tok.k = "IDENT" THEN Type2Typename(tok.v) ELSE Type2Value(tok.v),
        NoOperator)

Terminal == outcome \in {"ok", "err", "unimplemented"}
NoLexErr == \A i \in DOMAIN pulled : ~IsErr(pulled[i])
Finished(e) == entry = e /\ Terminal /\ NoLexErr

Next ==
  \/ New1 \/ New2
  \/ ParseType2 \/ ParseType1 \/ ParseType1Wrap
  \/ ParseTypeFirst \/ ParseTypePush \/ ParseTypeLoop
  \/ GenericParmEnter \/ GenericParmLoop \/ GenericParmExit
  \/ GenericArgEnter \/ GenericArgLoop \/ GenericArgPush \/ GenericArgExit
  \/ ParseRuleName \/ ParseRuleGenericParm
  \/ ParseRuleExpectAssign \/ ParseRuleExpectTChoiceAlt
  \/ ParseRuleExpectGChoiceAlt \/ ParseRuleFlags \/ ParseRuleBody
  \/ ParseRuleType
  \/ ParseCddlLoop \/ ParseCddlPush

Spec == Init /\ [][Next]_vars

\* ------------------------------------------------------------- properties

\* C1: on every stream of N >= 0 well-formed rules `ident = type` followed
\* by end-of-input, where a type is a `/`-separated list of identifiers,
\* text literals or range tokens, parse_cddl returns a Document with
\* exactly N type rules, in source order, the i-th named by the i-th source
\* identifier.
C1_DocumentRulesInOrder ==
  (Finished("parse_cddl") /\ Ref("doc").st # "dead") =>
    /\ outcome = "ok"
    /\ Ref("doc").st = "done"
    /\ Len(ret.val.rules) = Len(Ref("doc").names)
    /\ \A i \in 1..Len(ret.val.rules) :
         /\ ret.val.rules[i].tag = "Type"
         /\ ret.val.rules[i].name = Identifier(Ref("doc").names[i])

\* C2: on the stream `name < p1 , ... , pk > = type` (k >= 1) parse_rule
\* returns a type rule named `name` whose generic parameters are exactly
\* p1..pk in order and whose value is the parsed type.
C2_GenericRule ==
  (Finished("parse_rule") /\ Ref("grule").st # "dead") =>
    /\ outcome = "ok"
    /\ Ref("grule").st = "done"
    /\ ret.val.name = Identifier(Ref("grule").names[1])
    /\ ret.val.generic_param =
         SomeGenericParm([i \in 1..Len(Ref("grule").params) |->
                            Identifier(Ref("grule").params[i])])
    /\ ret.val.value =
         [i \in 1..Len(Ref("grule").items) |-> RefType1(Ref("grule").items[i])]

\* C3: the rule parse_rule returns records which of `=`, `/=`, `//=` was
\* used: the rule returned for a stream with `/=` or `//=` is not the rule
\* returned for the same stream with `=` (whose flags are all unset).
C3_AssignmentTokenRecorded ==
  (entry = "parse_rule" /\ outcome = "ok") =>
    LET plain == TypeRule(pulled[1], NoGenericParm, FALSE, ret.val.value)
    IN IF pulled[2].k = "ASSIGN" THEN ret.val = plain ELSE ret.val # plain

\* C4: on the stream t1 / t2 / ... / tk (k >= 1, each ti an identifier or a
\* text literal) followed by a token other than `/`, parse_type returns
\* exactly the k choices t1..tk in source order; parse_type never returns
\* successfully with an empty choice list, also when parse_rule calls it.
C4_TypeChoicesInOrder ==
  /\ (Finished("parse_type") /\ Ref("type").st # "dead") =>
       /\ outcome = "ok"
       /\ Ref("type").st = "done"
       /\ ret.val =
            [i \in 1..Len(Ref("type").items) |-> RefType1(Ref("type").items[i])]
  /\ (entry = "parse_type" /\ outcome = "ok") => Len(ret.val) >= 1
  /\ (At("rule_type") /\ ret.ok) => Len(ret.val) >= 1

\* Two different choices were parsed, in order.
C4_Witness ==
  /\ Finished("parse_type") /\ outcome = "ok"
  /\ Ref("type").st = "done"
  /\ Len(ret.val) = 2
  /\ ret.val[1] = RefType1(IDENT("a"))
  /\ ret.val[2] = RefType1(TEXT("x"))

\* C5: a lexer error on any pull made during parse_rule or parse_cddl
\* aborts the parse at once and is what the parse returns: from the failed
\* pull on, the result being returned is that lexer error.
C5_LexErrorPropagated ==
  (entry \in {"parse_rule", "parse_cddl"} /\ outcome # "new_err"
     /\ ~NoLexErr) =>
    ret = Err("LexError")

\* C6: when the token that follows the assignment token of a rule is `(`,
\* parse_rule ends in the explicit unimplemented outcome (a lexer error on
\* the pull that makes `(` current is the only thing that can precede it):
\* it is never an ordinary parse error, no Rule or Document is ever returned
\* whose consumed tokens (all but the two of lookahead) have `(` right after
\* an assignment token, and the unimplemented outcome arises nowhere else.
C6_InlineGroupUnimplemented ==
  /\ (entry \in {"parse_rule", "parse_cddl"} /\ Terminal
        /\ Len(pulled) >= 3 /\ pulled[1].k = "IDENT"
        /\ pulled[2].k \in AssignKinds /\ pulled[3].k = "LPAREN") =>
       \/ outcome = "unimplemented"
       \/ /\ IsErr(pulled[Len(pulled)])
          /\ outcome = "err" /\ ret = Err("LexError")
  /\ (Finished("parse_rule") /\ Len(pulled) >= 3 /\ pulled[1].k = "IDENT"
        /\ pulled[2].k \in AssignKinds /\ pulled[3].k = "LPAREN") =>
       outcome = "unimplemented"
  /\ (outcome = "ok" /\ entry \in {"parse_rule", "parse_cddl"}) =>
       \A i \in 1..(Len(pulled) - 3) :
         pulled[i].k \in AssignKinds => pulled[i + 1].k # "LPAREN"
  /\ outcome = "unimplemented" =>
       /\ cur_token_is("LPAREN")
       /\ pulled[Len(pulled) - 2].k \in AssignKinds

\* The second rule of a document has an inline group body.
C6_Witness ==
  /\ entry = "parse_cddl" /\ outcome = "unimplemented"
  /\ Len(rules) = 1
  /\ cur_token_is("LPAREN")

\* C7: whenever a parse returns successfully the parser's error list is
\* empty.
C7_NoErrorsOnSuccess ==
  outcome = "ok" => errors = <<>>

\* C8: with the current token `<`, on the stream `< id1 , ... , idk >`
\* parse_genericparm returns exactly id1..idk in source order and leaves the
\* current token at the token that follows `>`.
C8_GenericParmInOrder ==
  (Finished("parse_genericparm") /\ Ref("gparm").st # "dead") =>
    /\ outcome = "ok"
    /\ Ref("gparm").st = "done"
    /\ ret.val =
         [i \in 1..Len(Ref("gparm").params) |->
            Identifier(Ref("gparm").params[i])]
    /\ cur_token = pulled[Ref("gparm").close + 1]

\* Two different parameters were parsed, and a token other than
\* end-of-input follows `>`.
C8_Witness ==
  /\ Finished("parse_genericparm") /\ outcome = "ok"
  /\ Ref("gparm").st = "done"
  /\ ret.val = <<Identifier(IDENT("b")), Identifier(IDENT("a"))>>
  /\ cur_token = ASSIGN

\* C9: called with the current token `<`, parse_genericparm succeeds only
\* on streams of the form `<` ident (`,` ident)* `>`: whenever it returns
\* successfully, the tokens it consumed have that form.
C9_GenericParmStrict ==
  (entry = "parse_genericparm" /\ outcome = "ok"
     /\ pulled[1].k = "LANGLEBRACKET") =>
    /\ Ref("gparm").st = "done"
    /\ Len(pulled) = Ref("gparm").close + 2

\* C10: with the current token `<`, on the stream `< a1 , ... , ak >` where
\* each ai is a text literal or an identifier, parse_genericarg returns
\* exactly k arguments, the i-th the Type1 of ai, in source order, and
\* leaves the current token at the token that follows `>`.
C10_GenericArgInOrder ==
  (Finished("parse_genericarg") /\ Ref("garg").st # "dead") =>
    /\ outcome = "ok"
    /\ Ref("garg").st = "done"
    /\ ret.val =
         [i \in 1..Len(Ref("garg").items) |-> RefType1(Ref("garg").items[i])]
    /\ cur_token = pulled[Ref("garg").close + 1]

\* A text literal and an identifier were parsed as arguments, in order.
C10_Witness ==
  /\ Finished("parse_genericarg") /\ outcome = "ok"
  /\ Ref("garg").st = "done"
  /\ ret.val = <<RefType1(TEXT("x")), RefType1(IDENT("b"))>>
  /\ cur_token = COMMA

\* The tokens the parser has advanced past: all that were delivered but the
\* current and the peek token.
Consumed == Len(pulled) - 2

\* C17: on every finite token stream ended by end-of-input each parser
\* operation terminates after pulling finitely many tokens, because every
\* loop iteration that does not fail advances the current token, also on a
\* range token inside a generic argument list.  At the head of each loop
\* the iterations completed are then at most the tokens advanced past:
\* the rules of parse_cddl, the choices of parse_type after the first, the
\* parameters of parse_genericparm and the arguments of parse_genericarg.
C17_LoopsAdvance ==
  /\ At("cddl_loop") => Len(rules) <= Consumed
  /\ At("type_loop") => Len(t) - 1 <= Consumed
  /\ At("gp_loop") => Len(generic_params) <= Consumed
  /\ At("ga_loop") => Len(generic_args) <= Consumed

\* ======================================================================
\* The parent visitor (src/src/validator/parent_visitor.rs).
\*
\* ParentVisitor::new walks a Document top-down and records, in an arena,
\* one record per distinct node value with the index of its first parent
\* and the indices of its children.  The visit_* methods are translated
\* into bodies (the node interned on entry, then the children interned and
\* inserted in order, each with the visits it is followed by) and run by
\* one action per method over a stack of calls in progress, one step per
\* arena_tree.node and per insert call.
\* ======================================================================

\* Most rules of a Document walked by the visitor.
MaxRules == 2

\* Option<T>.
None == <<>>
Some(x) == <<x>>

\* ------------------------------------------------------ AST of the visitor
\* The node types the visitor reads, with the fields it reads.  Two nodes
\* are equal when they are structurally equal; positions are not part of a
\* node.
Literals == {"x", "y"}

AstIdentifier(i) == [ident |-> i]
ValueTEXT(s) == [vk |-> "TEXT", text |-> s]
OccurOptional == [occur |-> [occ |-> "Optional"]]
OccurZeroOrMore == [occur |-> [occ |-> "ZeroOrMore"]]

AstTextValue(s) == [t2 |-> "TextValue", value |-> s]
AstTypename(i, ga) ==
  [t2 |-> "Typename", ident |-> AstIdentifier(i), generic_args |-> ga]
AstParenthesizedType(pt) == [t2 |-> "ParenthesizedType", pt |-> pt]
AstMap(g) == [t2 |-> "Map", group |-> g]
AstUnwrap(i) == [t2 |-> "Unwrap", ident |-> AstIdentifier(i)]
AstAny == [t2 |-> "Any"]

AstOperator(op, t2) == [operator |-> op, type2 |-> t2]
AstType1(t2, o) == [type2 |-> t2, operator |-> o]
AstTypeChoice(t1) == [type1 |-> t1]
AstType(t1s) == [type_choices |-> [i \in 1..Len(t1s) |-> AstTypeChoice(t1s[i])]]
GenericArg(t1) == [arg |-> t1]
GenericArgs(t1s) == [args |-> [i \in 1..Len(t1s) |-> GenericArg(t1s[i])]]
GenericParam(i) == [param |-> AstIdentifier(i)]
GenericParams(is) == [params |-> [i \in 1..Len(is) |-> GenericParam(is[i])]]

MemberKeyType1(t1) == [mk |-> "Type1", t1 |-> t1]
MemberKeyBareword(i) == [mk |-> "Bareword", ident |-> AstIdentifier(i)]
MemberKeyValue(v) == [mk |-> "Value", value |-> v]
MemberKeyNonMemberKey(n) == [mk |-> "NonMemberKey", non_member_key |-> n]
NonMemberKeyGroup(g) == [nmk |-> "Group", group |-> g]
NonMemberKeyType(ty) == [nmk |-> "Type", t |-> ty]

ValueMemberKeyEntry(o, mk, ty) ==
  [occur |-> o, member_key |-> mk, entry_type |-> ty]
TypeGroupnameEntry(o, i, ga) ==
  [occur |-> o, name |-> AstIdentifier(i), generic_args |-> ga]
GroupEntryValueMemberKey(ge) == [ge |-> "ValueMemberKey", vmke |-> ge]
GroupEntryTypeGroupname(ge) == [ge |-> "TypeGroupname", tge |-> ge]
GroupEntryInlineGroup(o, g) == [ge |-> "InlineGroup", occur |-> o, group |-> g]
\* group_entries holds (entry, optional comma) pairs.
GroupChoice(ges) ==
  [group_entries |-> [i \in 1..Len(ges) |-> <<ges[i], FALSE>>]]
Group(gcs) == [group_choices |-> gcs]

AstTypeRule(n, g, v) ==
  [name |-> AstIdentifier(n), generic_params |-> g, value |-> v]
GroupRule(n, g, e) ==
  [name |-> AstIdentifier(n), generic_params |-> g, entry |-> e]
RuleType(r) == [rk |-> "Type", trule |-> r]
RuleGroup(r) == [rk |-> "Group", grule |-> r]
CDDL(rs) == [rules |-> rs]

\* The enum CDDLType: a node tagged with its kind.
CDDLType(kind, v) == [ct |-> kind, val |-> v]

\* Equality of two CDDLType values: the same kind wrapping equal nodes.
SameNode(x, y) == x.ct = y.ct /\ x.val = y.val

\* ------------------------------------------------- the Documents walked
\* A type of one choice without operator.
Plain(t2) == AstType(<<AstType1(t2, None)>>)
Lit(s) == AstTextValue(s)
Name(i) == AstTypename(i, None)
KeyedEntry(o, mk, ty) == GroupEntryValueMemberKey(ValueMemberKeyEntry(o, mk, ty))
OneEntryGroup(ge) == Group(<<GroupChoice(<<ge>>)>>)

\* Type rules: `a = "x"`, `b = "x"`, `a = b`, `b = b`, and rules that
\* between them hold every further shape of a type:
\*   a<a, b> = "x" / ~b / any
\*   a = "x".."y" / "x" .ctl "x"
\*   a = b<"x"> / ("x")
\*   a = { "x", b }
TypeRules ==
  {AstTypeRule(n, None, Plain(t2)) : n \in Idents, t2 \in {Lit("x"), Name("b")}}
    \cup
  { AstTypeRule("a", Some(GenericParams(<<"a", "b">>)),
      AstType(<<AstType1(Lit("x"), None), AstType1(AstUnwrap("b"), None),
                AstType1(AstAny, None)>>)),
    AstTypeRule("a", None,
      AstType(<<AstType1(Lit("x"), Some(AstOperator("RangeOp", Lit("y")))),
                AstType1(Lit("x"), Some(AstOperator("CtlOp", Lit("x"))))>>)),
    AstTypeRule("a", None,
      AstType(<<
        AstType1(AstTypename("b", Some(GenericArgs(<<AstType1(Lit("x"), None)>>))),
                 None),
        AstType1(AstParenthesizedType(Plain(Lit("x"))), None)>>)),
    AstTypeRule("a", None,
      Plain(AstMap(Group(<<GroupChoice(<<
        KeyedEntry(None, None, Plain(Lit("x"))),
        GroupEntryTypeGroupname(TypeGroupnameEntry(None, "b", None))>>)>>)))) }

\* Group rules that between them hold every shape of a group entry and of
\* a member key:
\*   b = ( "x": "x" )
\*   b<a> = ( * a<"x"> )
\*   b = ( ? ( ? a: b, "x" => "y", <type "x"> "x", <group a> "x" ) )
GroupRules ==
  { GroupRule("b", None,
      KeyedEntry(None, Some(MemberKeyValue(ValueTEXT("x"))), Plain(Lit("x")))),
    GroupRule("b", Some(GenericParams(<<"a">>)),
      GroupEntryTypeGroupname(TypeGroupnameEntry(Some(OccurZeroOrMore), "a",
        Some(GenericArgs(<<AstType1(Lit("x"), None)>>))))),
    GroupRule("b", None,
      GroupEntryInlineGroup(Some(OccurOptional),
        Group(<<GroupChoice(<<
          KeyedEntry(Some(OccurOptional), Some(MemberKeyBareword("a")),
                     Plain(Name("b"))),
          KeyedEntry(None, Some(MemberKeyType1(AstType1(Lit("x"), None))),
                     Plain(Lit("y"))),
          KeyedEntry(None,
            Some(MemberKeyNonMemberKey(NonMemberKeyType(Plain(Lit("x"))))),
            Plain(Lit("x"))),
          KeyedEntry(None,
            Some(MemberKeyNonMemberKey(NonMemberKeyGroup(OneEntryGroup(
              GroupEntryTypeGroupname(TypeGroupnameEntry(None, "a", None)))))),
            Plain(Lit("x")))>>)>>))) }

DocRules ==
  {RuleType(r) : r \in TypeRules} \cup {RuleGroup(r) : r \in GroupRules}

\* Every Document of 1..MaxRules of these rules.
Documents ==
  {CDDL(rs) : rs \in UNION {[1..n -> DocRules] : n \in 1..MaxRules}}

\* ------------------------------------------------------------ the arena
\* Node::new
NodeNew(idx, val) == [idx |-> idx, val |-> val, parent |-> None, children |-> <<>>]

\* The first of a set of arena positions: the one a scan from the front of
\* the arena meets first.
First(S) == CHOOSE i \in S : \A j \in S : i <= j

\* ArenaTree::node that pushes a record without scanning for an equal one.
node_NoScan(a, val) ==
  [arena |-> Append(a, NodeNew(Len(a), val)), idx |-> Len(a)]

\* ArenaTree::node: the idx of the first record wrapping a value equal to
\* val, else a new record pushed at idx = arena.len().  Indices count from 0.
node(a, val) ==
  LET hits == {i \in 1..Len(a) : SameNode(a[i].val, val)}
  IN IF hits # {}
       THEN [arena |-> a, idx |-> a[First(hits)].idx]
       ELSE [arena |-> Append(a, NodeNew(Len(a), val)), idx |-> Len(a)]

\* ParentVisitor::insert with the commented-out `return Err(Error::Overwrite)`
\* replaced by an overwrite of the recorded parent.
insert_Overwrite(a, parent, child) ==
  LET a1 == [a EXCEPT ![child + 1].parent = Some(parent)]
  IN [arena |-> [a1 EXCEPT ![parent + 1].children = Append(@, child)],
      res |-> "Ok"]

\* ParentVisitor::insert: the child's parent is set when it is None, the
\* child is pushed on the parent's children in every case, and the result
\* is Ok(()).
insert(a, parent, child) ==
  LET a1 == IF a[child + 1].parent = None
              THEN [a EXCEPT ![child + 1].parent = Some(parent)]
              ELSE a
  IN [arena |-> [a1 EXCEPT ![parent + 1].children = Append(@, child)],
      res |-> "Ok"]

\* CDDLType::parent returning the value of the record found instead of the
\* value of its parent.
parent_OwnValue(a, v) ==
  LET hits == {i \in 1..Len(a) : /\ SameNode(v, a[i].val)
                                  /\ a[i].parent # None
                                  /\ a[i].parent[1] < Len(a)}
  IN IF hits # {} THEN Some(a[First(hits)].val) ELSE None

\* CDDLType::parent: the value of the recorded parent of the first record
\* that wraps a value equal to v and has a parent inside the arena.
parent(a, v) ==
  LET hits == {i \in 1..Len(a) : /\ SameNode(v, a[i].val)
                                  /\ a[i].parent # None
                                  /\ a[i].parent[1] < Len(a)}
  IN IF hits # {} THEN Some(a[a[First(hits)].parent[1] + 1].val) ELSE None

\* The kind of parent each `impl Parent<P> for C` asks for.
ParentKind(kind) ==
  CASE kind = "Rule" -> "CDDL"
    [] kind = "TypeRule" -> "Rule"
    [] kind = "GroupRule" -> "Rule"
    [] kind = "Type" -> "TypeRule"
    [] kind = "TypeChoice" -> "Type"
    [] kind = "Type1" -> "TypeChoice"
    [] kind = "Type2" -> "Type1"
    [] kind = "Value" -> "Type2"
    [] kind = "GroupEntry" -> "GroupRule"

\* Parent::parent of the node v of kind `kind`: the recorded parent when it
\* is of the kind asked for, else None.
parent_of(a, kind, v) ==
  LET p == parent(a, CDDLType(kind, v))
  IN IF p # None /\ p[1].ct = ParentKind(kind) THEN Some(p[1].val) ELSE None

\* ------------------------------------------------------ the visit methods
\* A method body: the node interned on entry (`let parent = ...node(..)`)
\* and its steps in order.  A step interns and inserts one child and then
\* makes the listed visits; a step without child makes visits only.
Visit(fn, val) == [fn |-> fn, val |-> val]
Step(c, calls) == [child |-> Some(c), calls |-> calls]
Calls(calls) == [child |-> None, calls |-> calls]
MethodBody(self, steps) == [self |-> self, steps |-> steps]
IfSome(o, steps) == IF o = None THEN <<>> ELSE steps

\* visitor::walk_generic_params: visit_generic_param on each parameter.
walk_generic_params(params) ==
  [i \in 1..Len(params.params) |->
     Visit("visit_generic_param", params.params[i])]

\* visitor::walk_operator: visit_type2 on the target's type2, then on the
\* operator's type2 (through visit_range / visit_control_operator).
walk_operator(target, o) ==
  <<Visit("visit_type2", target.type2), Visit("visit_type2", o.type2)>>

visit_cddl(c) ==
  MethodBody(CDDLType("CDDL", c),
    [i \in 1..Len(c.rules) |->
       Step(CDDLType("Rule", c.rules[i]), <<Visit("visit_rule", c.rules[i])>>)])

visit_rule(rule) ==
  MethodBody(CDDLType("Rule", rule),
    IF rule.rk = "Group"
      THEN <<Step(CDDLType("GroupRule", rule.grule),
                  <<Visit("visit_group_rule", rule.grule)>>)>>
      ELSE <<Step(CDDLType("TypeRule", rule.trule),
                  <<Visit("visit_type_rule", rule.trule)>>)>>)

visit_type_rule(tr) ==
  MethodBody(CDDLType("TypeRule", tr),
    <<Step(CDDLType("Identifier", tr.name), <<>>)>>
      \o IfSome(tr.generic_params,
           <<Step(CDDLType("GenericParams", tr.generic_params[1]),
                  walk_generic_params(tr.generic_params[1]))>>)
      \o <<Step(CDDLType("Type", tr.value), <<Visit("visit_type", tr.value)>>)>>)

\* visit_identifier is not overridden and leaves the arena alone.
visit_group_rule(gr) ==
  MethodBody(CDDLType("GroupRule", gr),
    <<Step(CDDLType("Identifier", gr.name), <<>>)>>
      \o IfSome(gr.generic_params,
           <<Step(CDDLType("GenericParams", gr.generic_params[1]),
                  walk_generic_params(gr.generic_params[1]))>>)
      \o <<Step(CDDLType("GroupEntry", gr.entry),
                <<Visit("visit_group_entry", gr.entry)>>)>>)

visit_type(ty) ==
  MethodBody(CDDLType("Type", ty),
    [i \in 1..Len(ty.type_choices) |->
       Step(CDDLType("TypeChoice", ty.type_choices[i]),
            <<Visit("visit_type_choice", ty.type_choices[i])>>)])

visit_type_choice(tc) ==
  MethodBody(CDDLType("TypeChoice", tc),
    <<Step(CDDLType("Type1", tc.type1), <<Visit("visit_type1", tc.type1)>>)>>)

visit_type1(t1) ==
  MethodBody(CDDLType("Type1", t1),
    IfSome(t1.operator,
      <<Step(CDDLType("Operator", t1.operator[1]),
             <<Visit("visit_operator", [target |-> t1, o |-> t1.operator[1]])>>)>>)
      \o <<Step(CDDLType("Type2", t1.type2), <<Visit("visit_type2", t1.type2)>>)>>)

visit_operator(target, o) ==
  MethodBody(CDDLType("Operator", o),
    <<Step(CDDLType("Type2", o.type2), walk_operator(target, o))>>)

\* The Value variant wrapped for each literal variant of Type2.
ValueKind ==
  [IntValue |-> "INT", UintValue |-> "UINT", FloatValue |-> "FLOAT",
   TextValue |-> "TEXT", UTF8ByteString |-> "BYTE_UTF8",
   B16ByteString |-> "BYTE_B16", B64ByteString |-> "BYTE_B64"]

\* visit_value is not overridden and leaves the arena alone.
visit_type2(t2) ==
  MethodBody(CDDLType("Type2", t2),
    CASE t2.t2 \in DOMAIN ValueKind ->
           <<Step(CDDLType("Value", [vk |-> ValueKind[t2.t2], text |-> t2.value]),
                  <<>>)>>
      [] t2.t2 \in {"Typename", "ChoiceFromGroup"} ->
           <<Step(CDDLType("Identifier", t2.ident), <<>>)>>
             \o IfSome(t2.generic_args,
                  <<Step(CDDLType("GenericArgs", t2.generic_args[1]),
                         <<Visit("visit_generic_args", t2.generic_args[1])>>)>>)
      [] t2.t2 = "ParenthesizedType" ->
           <<Step(CDDLType("Type", t2.pt), <<Visit("visit_type", t2.pt)>>)>>
      [] t2.t2 \in {"Map", "Array", "ChoiceFromInlineGroup"} ->
           <<Step(CDDLType("Group", t2.group), <<Visit("visit_group", t2.group)>>)>>
      [] t2.t2 = "Unwrap" ->
           <<Step(CDDLType("Identifier", t2.ident), <<>>)>>
      [] t2.t2 = "TaggedData" ->
           <<Step(CDDLType("Type", t2.t), <<Visit("visit_type", t2.t)>>)>>
      [] OTHER -> <<>>)

visit_group(g) ==
  MethodBody(CDDLType("Group", g),
    [i \in 1..Len(g.group_choices) |->
       Step(CDDLType("GroupChoice", g.group_choices[i]),
            <<Visit("visit_group_choice", g.group_choices[i])>>)])

visit_group_choice(gc) ==
  MethodBody(CDDLType("GroupChoice", gc),
    [i \in 1..Len(gc.group_entries) |->
       Step(CDDLType("GroupEntry", gc.group_entries[i][1]),
            <<Visit("visit_group_entry", gc.group_entries[i][1])>>)])

visit_occurrence(o) ==
  MethodBody(CDDLType("Occurrence", o),
    <<Step(CDDLType("Occur", o.occur), <<>>)>>)

visit_group_entry(e) ==
  MethodBody(CDDLType("GroupEntry", e),
    CASE e.ge = "ValueMemberKey" ->
           <<Step(CDDLType("ValueMemberKeyEntry", e.vmke),
                  <<Visit("visit_value_member_key_entry", e.vmke)>>)>>
      [] e.ge = "TypeGroupname" ->
           <<Step(CDDLType("TypeGroupnameEntry", e.tge),
                  <<Visit("visit_type_groupname_entry", e.tge)>>)>>
      [] e.ge = "InlineGroup" ->
           IfSome(e.occur,
             <<Step(CDDLType("Occurrence", e.occur[1]),
                    <<Visit("visit_occurrence", e.occur[1])>>)>>)
             \o <<Step(CDDLType("Group", e.group),
                       <<Visit("visit_group", e.group)>>)>>)

visit_value_member_key_entry(e) ==
  MethodBody(CDDLType("ValueMemberKeyEntry", e),
    IfSome(e.occur,
      <<Step(CDDLType("Occurrence", e.occur[1]),
             <<Visit("visit_occurrence", e.occur[1])>>)>>)
      \o IfSome(e.member_key,
           <<Step(CDDLType("MemberKey", e.member_key[1]),
                  <<Visit("visit_memberkey", e.member_key[1])>>)>>)
      \o <<Step(CDDLType("Type", e.entry_type),
                <<Visit("visit_type", e.entry_type)>>)>>)

visit_type_groupname_entry(e) ==
  MethodBody(CDDLType("TypeGroupnameEntry", e),
    IfSome(e.occur,
      <<Step(CDDLType("Occurrence", e.occur[1]),
             <<Visit("visit_occurrence", e.occur[1])>>)>>)
      \o IfSome(e.generic_args,
           <<Step(CDDLType("GenericArgs", e.generic_args[1]),
                  <<Visit("visit_generic_args", e.generic_args[1])>>)>>)
      \o <<Step(CDDLType("Identifier", e.name), <<>>)>>)

\* ParentVisitor::new never reaches visit_inline_group_entry, since
\* visit_group_entry handles the inline group itself; it runs when the
\* method is called on the visitor directly.
visit_inline_group_entry(occur, g) ==
  MethodBody(CDDLType("Group", g),
    IfSome(occur, <<Calls(<<Visit("visit_occurrence", occur[1])>>)>>)
      \o [i \in 1..Len(g.group_choices) |->
            Step(CDDLType("GroupChoice", g.group_choices[i]), <<>>)]
      \o <<Calls(<<Visit("visit_group", g)>>)>>)

visit_memberkey(mk) ==
  MethodBody(CDDLType("MemberKey", mk),
    CASE mk.mk = "Type1" ->
           <<Step(CDDLType("Type1", mk.t1), <<Visit("visit_type1", mk.t1)>>)>>
      [] mk.mk = "Bareword" ->
           <<Step(CDDLType("Identifier", mk.ident), <<>>)>>
      [] mk.mk = "Value" ->
           <<Step(CDDLType("Value", mk.value), <<>>)>>
      [] mk.mk = "NonMemberKey" ->
           <<Step(CDDLType("NonMemberKey", mk.non_member_key),
                  <<Visit("visit_nonmemberkey", mk.non_member_key)>>)>>)

visit_generic_args(args) ==
  MethodBody(CDDLType("GenericArgs", args),
    [i \in 1..Len(args.args) |->
       Step(CDDLType("GenericArg", args.args[i]),
            <<Visit("visit_generic_arg", args.args[i])>>)])

visit_generic_arg(arg) ==
  MethodBody(CDDLType("GenericArg", arg),
    <<Step(CDDLType("Type1", arg.arg), <<Visit("visit_type1", arg.arg)>>)>>)

\* visit_type_rule and visit_group_rule call walk_generic_params, which goes
\* to visit_generic_param directly: ParentVisitor::new never reaches
\* visit_generic_params; it runs when the method is called on the visitor
\* directly.
visit_generic_params(params) ==
  MethodBody(CDDLType("GenericParams", params),
    [i \in 1..Len(params.params) |->
       Step(CDDLType("GenericParam", params.params[i]),
            <<Visit("visit_generic_param", params.params[i])>>)])

visit_generic_param(param) ==
  MethodBody(CDDLType("GenericParam", param),
    <<Step(CDDLType("Identifier", param.param), <<>>)>>)

visit_nonmemberkey(nmk) ==
  MethodBody(CDDLType("NonMemberKey", nmk),
    CASE nmk.nmk = "Group" ->
           <<Step(CDDLType("Group", nmk.group), <<Visit("visit_group", nmk.group)>>)>>
      [] nmk.nmk = "Type" ->
           <<Step(CDDLType("Type", nmk.t), <<Visit("visit_type", nmk.t)>>)>>)

\* --------------------------------------------------- running the methods
\* A call in progress: the method, its argument, the step it is at (0 on
\* entry), whether the step's child is interned already, and the locals
\* `parent` and `child`.
NewFrame(call) ==
  [fn |-> call.fn, val |-> call.val, pc |-> 0, sub |-> "node",
   parent |-> 0, child |-> 0]

TopFrame == frames[Len(frames)]

Body(f) ==
  CASE f.fn = "visit_cddl" -> visit_cddl(f.val)
    [] f.fn = "visit_rule" -> visit_rule(f.val)
    [] f.fn = "visit_type_rule" -> visit_type_rule(f.val)
    [] f.fn = "visit_group_rule" -> visit_group_rule(f.val)
    [] f.fn = "visit_type" -> visit_type(f.val)
    [] f.fn = "visit_type_choice" -> visit_type_choice(f.val)
    [] f.fn = "visit_type1" -> visit_type1(f.val)
    [] f.fn = "visit_operator" -> visit_operator(f.val.target, f.val.o)
    [] f.fn = "visit_type2" -> visit_type2(f.val)
    [] f.fn = "visit_group" -> visit_group(f.val)
    [] f.fn = "visit_group_choice" -> visit_group_choice(f.val)
    [] f.fn = "visit_group_entry" -> visit_group_entry(f.val)
    [] f.fn = "visit_value_member_key_entry" ->
         visit_value_member_key_entry(f.val)
    [] f.fn = "visit_type_groupname_entry" -> visit_type_groupname_entry(f.val)
    [] f.fn = "visit_inline_group_entry" ->
         visit_inline_group_entry(f.val.occur, f.val.g)
    [] f.fn = "visit_occurrence" -> visit_occurrence(f.val)
    [] f.fn = "visit_memberkey" -> visit_memberkey(f.val)
    [] f.fn = "visit_generic_args" -> visit_generic_args(f.val)
    [] f.fn = "visit_generic_arg" -> visit_generic_arg(f.val)
    [] f.fn = "visit_generic_params" -> visit_generic_params(f.val)
    [] f.fn = "visit_generic_param" -> visit_generic_param(f.val)
    [] f.fn = "visit_nonmemberkey" -> visit_nonmemberkey(f.val)

\* The calls of a step pushed so that the first one runs first.
PushCalls(fs, calls) ==
  fs \o [i \in 1..Len(calls) |-> NewFrame(calls[Len(calls) + 1 - i])]

\* The step after this one, with its visits made first.
NextStep(calls) ==
  PushCalls([frames EXCEPT ![Len(frames)].pc = @ + 1,
                           ![Len(frames)].sub = "node"], calls)

\* `let parent = self.arena_tree.node(..)` on entry.
EnterStep(b) ==
  LET r == node(arena, b.self)
  IN /\ arena' = r.arena
     /\ frames' = [frames EXCEPT ![Len(frames)].pc = 1,
                                 ![Len(frames)].parent = r.idx]
     /\ built' = built

\* `let child = self.arena_tree.node(..)`
NodeStep(s) ==
  LET r == node(arena, s.child[1])
  IN /\ arena' = r.arena
     /\ frames' = [frames EXCEPT ![Len(frames)].sub = "insert",
                                 ![Len(frames)].child = r.idx]
     /\ built' = built

\* `self.insert(parent, child)?` and the visits that follow it.
InsertStep(s) ==
  LET r == insert(arena, TopFrame.parent, TopFrame.child)
  IN /\ arena' = r.arena
     /\ IF r.res = "Ok"
          THEN frames' = NextStep(s.calls) /\ built' = built
          ELSE frames' = <<>> /\ built' = "Overwrite"

\* The end of the method; the end of visit_cddl is the Ok(p) of
\* ParentVisitor::new.
ReturnStep ==
  /\ frames' = Front(frames)
  /\ built' = IF Len(frames) = 1 THEN "ok" ELSE built
  /\ arena' = arena

\* The innermost call is a call of fn.
Visiting(fn) == built = "visiting" /\ Len(frames) > 0 /\ TopFrame.fn = fn

\* The next step of the innermost call.
Run ==
  /\ LET f == TopFrame
         b == Body(f)
     IN IF f.pc = 0 THEN EnterStep(b)
        ELSE IF f.pc > Len(b.steps) THEN ReturnStep
        ELSE IF b.steps[f.pc].child = None
          THEN /\ frames' = NextStep(b.steps[f.pc].calls)
               /\ UNCHANGED <<arena, built>>
        ELSE IF f.sub = "node" THEN NodeStep(b.steps[f.pc])
        ELSE InsertStep(b.steps[f.pc])
  /\ UNCHANGED <<psVars, cddl>>

VisitCddl ==
  /\ Visiting("visit_cddl")
  /\ Run

VisitRule ==
  /\ Visiting("visit_rule")
  /\ Run

VisitTypeRule ==
  /\ Visiting("visit_type_rule")
  /\ Run

VisitGroupRule ==
  /\ Visiting("visit_group_rule")
  /\ Run

VisitType ==
  /\ Visiting("visit_type")
  /\ Run

VisitTypeChoice ==
  /\ Visiting("visit_type_choice")
  /\ Run

VisitType1 ==
  /\ Visiting("visit_type1")
  /\ Run

VisitOperator ==
  /\ Visiting("visit_operator")
  /\ Run

VisitType2 ==
  /\ Visiting("visit_type2")
  /\ Run

VisitGroup ==
  /\ Visiting("visit_group")
  /\ Run

VisitGroupChoice ==
  /\ Visiting("visit_group_choice")
  /\ Run

VisitGroupEntry ==
  /\ Visiting("visit_group_entry")
  /\ Run

VisitValueMemberKeyEntry ==
  /\ Visiting("visit_value_member_key_entry")
  /\ Run

VisitTypeGroupnameEntry ==
  /\ Visiting("visit_type_groupname_entry")
  /\ Run

VisitInlineGroupEntry ==
  /\ Visiting("visit_inline_group_entry")
  /\ Run

VisitOccurrence ==
  /\ Visiting("visit_occurrence")
  /\ Run

VisitMemberkey ==
  /\ Visiting("visit_memberkey")
  /\ Run

VisitGenericArgs ==
  /\ Visiting("visit_generic_args")
  /\ Run

VisitGenericArg ==
  /\ Visiting("visit_generic_arg")
  /\ Run

VisitGenericParams ==
  /\ Visiting("visit_generic_params")
  /\ Run

VisitGenericParam ==
  /\ Visiting("visit_generic_param")
  /\ Run

VisitNonmemberkey ==
  /\ Visiting("visit_nonmemberkey")
  /\ Run

\* The generic parameter lists visit_generic_params is called on directly.
DirectParams == {<<"a">>, <<"a", "b">>, <<"a", "a">>}

\* The group visit_inline_group_entry is called on directly: `"x", b`.
DirectGroup ==
  Group(<<GroupChoice(<<
    KeyedEntry(None, None, Plain(Lit("x"))),
    GroupEntryTypeGroupname(TypeGroupnameEntry(None, "b", None))>>)>>)

\* The first call on a visitor with an empty arena.
FirstCall(call, doc) ==
  /\ entry = call.fn
  /\ cddl = doc
  /\ frames = <<NewFrame(call)>>

\* ParentVisitor::new(cddl): an empty arena, then p.visit_cddl(cddl); or a
\* visitor with an empty arena on which one of the two methods that
\* visit_cddl never reaches is called directly.
InitPV ==
  /\ \/ \E d \in Documents : FirstCall(Visit("visit_cddl", d), d)
     \/ \E ps \in DirectParams :
          FirstCall(Visit("visit_generic_params", GenericParams(ps)), CDDL(<<>>))
     \/ \E o \in {None, Some(OccurOptional)} :
          FirstCall(Visit("visit_inline_group_entry",
                          [occur |-> o, g |-> DirectGroup]), CDDL(<<>>))
  /\ pulled = <<>>
  /\ cur_token = EOF
  /\ peek_token = EOF
  /\ errors = <<>>
  /\ stack = <<"new1">>
  /\ ret = NoRet
  /\ outcome = "new"
  /\ rules = <<>>
  /\ name = EOF
  /\ gp = NoGenericParm
  /\ is_type_choice_alternate = FALSE
  /\ is_group_choice_alternate = FALSE
  /\ t = <<>>
  /\ generic_params = <<>>
  /\ generic_args = <<>>
  /\ arena = <<>>
  /\ built = "visiting"

NextPV ==
  \/ VisitCddl \/ VisitRule \/ VisitTypeRule \/ VisitGroupRule
  \/ VisitType \/ VisitTypeChoice \/ VisitType1 \/ VisitOperator
  \/ VisitType2 \/ VisitGroup \/ VisitGroupChoice \/ VisitGroupEntry
  \/ VisitValueMemberKeyEntry \/ VisitTypeGroupnameEntry
  \/ VisitInlineGroupEntry \/ VisitOccurrence
  \/ VisitMemberkey \/ VisitGenericArgs \/ VisitGenericArg
  \/ VisitGenericParams \/ VisitGenericParam \/ VisitNonmemberkey

SpecPV == InitPV /\ [][NextPV]_vars

\* ------------------------------------------- containment in a Document
\* The grammar's containment relation, read off the Document and not off the
\* walk: every (container, contained node) pair of a subtree, in source
\* order, both given as CDDLType values.
In(p, c) == [p |-> p, c |-> c]

RECURSIVE Cat(_)
Cat(ss) == IF ss = <<>> THEN <<>> ELSE Head(ss) \o Cat(Tail(ss))

RECURSIVE PairsOfType(_), PairsOfType1(_), PairsOfType2(_), PairsOfGroup(_)
RECURSIVE PairsOfGroupEntry(_), PairsOfMemberKey(_), PairsOfGenericArgs(_)

PairsOfOccur(holder, o) ==
  IfSome(o, <<In(holder, CDDLType("Occurrence", o[1])),
              In(CDDLType("Occurrence", o[1]), CDDLType("Occur", o[1].occur))>>)

PairsOfGenericParams(params) ==
  Cat([i \in 1..Len(params.params) |->
    <<In(CDDLType("GenericParams", params), CDDLType("GenericParam", params.params[i])),
      In(CDDLType("GenericParam", params.params[i]),
         CDDLType("Identifier", params.params[i].param))>>])

PairsOfGenericArgs(ga) ==
  Cat([i \in 1..Len(ga.args) |->
    <<In(CDDLType("GenericArgs", ga), CDDLType("GenericArg", ga.args[i])),
      In(CDDLType("GenericArg", ga.args[i]), CDDLType("Type1", ga.args[i].arg))>>
      \o PairsOfType1(ga.args[i].arg)])

PairsOfType(ty) ==
  Cat([i \in 1..Len(ty.type_choices) |->
    <<In(CDDLType("Type", ty), CDDLType("TypeChoice", ty.type_choices[i])),
      In(CDDLType("TypeChoice", ty.type_choices[i]),
         CDDLType("Type1", ty.type_choices[i].type1))>>
      \o PairsOfType1(ty.type_choices[i].type1)])

PairsOfType1(t1) ==
  IfSome(t1.operator,
    <<In(CDDLType("Type1", t1), CDDLType("Operator", t1.operator[1])),
      In(CDDLType("Operator", t1.operator[1]),
         CDDLType("Type2", t1.operator[1].type2))>>
      \o PairsOfType2(t1.operator[1].type2))
    \o <<In(CDDLType("Type1", t1), CDDLType("Type2", t1.type2))>>
    \o PairsOfType2(t1.type2)

PairsOfType2(t2) ==
  LET self == CDDLType("Type2", t2)
  IN CASE t2.t2 = "TextValue" ->
            <<In(self, CDDLType("Value", ValueTEXT(t2.value)))>>
       [] t2.t2 = "Typename" ->
            <<In(self, CDDLType("Identifier", t2.ident))>>
              \o IfSome(t2.generic_args,
                   <<In(self, CDDLType("GenericArgs", t2.generic_args[1]))>>
                     \o PairsOfGenericArgs(t2.generic_args[1]))
       [] t2.t2 = "ParenthesizedType" ->
            <<In(self, CDDLType("Type", t2.pt))>> \o PairsOfType(t2.pt)
       [] t2.t2 = "Map" ->
            <<In(self, CDDLType("Group", t2.group))>> \o PairsOfGroup(t2.group)
       [] t2.t2 = "Unwrap" -> <<In(self, CDDLType("Identifier", t2.ident))>>
       [] OTHER -> <<>>

PairsOfGroup(g) ==
  Cat([i \in 1..Len(g.group_choices) |->
    <<In(CDDLType("Group", g), CDDLType("GroupChoice", g.group_choices[i]))>>
      \o Cat([j \in 1..Len(g.group_choices[i].group_entries) |->
           <<In(CDDLType("GroupChoice", g.group_choices[i]),
                CDDLType("GroupEntry", g.group_choices[i].group_entries[j][1]))>>
             \o PairsOfGroupEntry(g.group_choices[i].group_entries[j][1])])])

PairsOfMemberKey(mk) ==
  LET self == CDDLType("MemberKey", mk)
  IN CASE mk.mk = "Type1" ->
            <<In(self, CDDLType("Type1", mk.t1))>> \o PairsOfType1(mk.t1)
       [] mk.mk = "Bareword" -> <<In(self, CDDLType("Identifier", mk.ident))>>
       [] mk.mk = "Value" -> <<In(self, CDDLType("Value", mk.value))>>
       [] mk.mk = "NonMemberKey" ->
            <<In(self, CDDLType("NonMemberKey", mk.non_member_key))>>
              \o (IF mk.non_member_key.nmk = "Group"
                    THEN <<In(CDDLType("NonMemberKey", mk.non_member_key),
                              CDDLType("Group", mk.non_member_key.group))>>
                           \o PairsOfGroup(mk.non_member_key.group)
                    ELSE <<In(CDDLType("NonMemberKey", mk.non_member_key),
                              CDDLType("Type", mk.non_member_key.t))>>
                           \o PairsOfType(mk.non_member_key.t))

PairsOfGroupEntry(e) ==
  LET self == CDDLType("GroupEntry", e)
  IN CASE e.ge = "ValueMemberKey" ->
            LET h == CDDLType("ValueMemberKeyEntry", e.vmke)
            IN <<In(self, h)>>
                 \o PairsOfOccur(h, e.vmke.occur)
                 \o IfSome(e.vmke.member_key,
                      <<In(h, CDDLType("MemberKey", e.vmke.member_key[1]))>>
                        \o PairsOfMemberKey(e.vmke.member_key[1]))
                 \o <<In(h, CDDLType("Type", e.vmke.entry_type))>>
                 \o PairsOfType(e.vmke.entry_type)
       [] e.ge = "TypeGroupname" ->
            LET h == CDDLType("TypeGroupnameEntry", e.tge)
            IN <<In(self, h)>>
                 \o PairsOfOccur(h, e.tge.occur)
                 \o IfSome(e.tge.generic_args,
                      <<In(h, CDDLType("GenericArgs", e.tge.generic_args[1]))>>
                        \o PairsOfGenericArgs(e.tge.generic_args[1]))
                 \o <<In(h, CDDLType("Identifier", e.tge.name))>>
       [] e.ge = "InlineGroup" ->
            PairsOfOccur(self, e.occur)
              \o <<In(self, CDDLType("Group", e.group))>>
              \o PairsOfGroup(e.group)

PairsOfRule(rule) ==
  LET self == CDDLType("Rule", rule)
  IN IF rule.rk = "Type"
       THEN LET tr == rule.trule
                h == CDDLType("TypeRule", tr)
            IN <<In(self, h), In(h, CDDLType("Identifier", tr.name))>>
                 \o IfSome(tr.generic_params,
                      <<In(h, CDDLType("GenericParams", tr.generic_params[1]))>>
                        \o PairsOfGenericParams(tr.generic_params[1]))
                 \o <<In(h, CDDLType("Type", tr.value))>>
                 \o PairsOfType(tr.value)
       ELSE LET gr == rule.grule
                h == CDDLType("GroupRule", gr)
            IN <<In(self, h), In(h, CDDLType("Identifier", gr.name))>>
                 \o IfSome(gr.generic_params,
                      <<In(h, CDDLType("GenericParams", gr.generic_params[1]))>>
                        \o PairsOfGenericParams(gr.generic_params[1]))
                 \o <<In(h, CDDLType("GroupEntry", gr.entry))>>
                 \o PairsOfGroupEntry(gr.entry)

PairsOfCDDL(c) ==
  Cat([i \in 1..Len(c.rules) |->
    <<In(CDDLType("CDDL", c), CDDLType("Rule", c.rules[i]))>>
      \o PairsOfRule(c.rules[i])])

\* The pairs of one kind of contained node.
PairsOfKind(ps, kinds) == SelectSeq(ps, LAMBDA x : x.c.ct \in kinds)

\* ParentVisitor::new(cddl) has returned Ok.
Built == built = "ok" /\ entry = "visit_cddl"

\* Some arena record wraps v.
Interned(v) == \E i \in 1..Len(arena) : SameNode(arena[i].val, v)

\* ------------------------------------------- properties of the visitor
\* The (container, node) pairs the typed parent query is specified for:
\* every rule in its Document, every TypeRule / GroupRule in its rule, the
\* value of every type rule in the type rule, every TypeChoice, Type1, Type2
\* and literal value below that value in its Type, TypeChoice, Type1 and
\* Type2, and the entry of every group rule in the group rule.
ChainKinds ==
  {<<"Type", "TypeChoice">>, <<"TypeChoice", "Type1">>, <<"Type1", "Type2">>,
   <<"Type2", "Value">>}

Claimed(c) ==
  Cat([i \in 1..Len(c.rules) |->
    LET r == c.rules[i]
    IN <<In(CDDLType("CDDL", c), CDDLType("Rule", r))>>
         \o (IF r.rk = "Type"
               THEN <<In(CDDLType("Rule", r), CDDLType("TypeRule", r.trule)),
                      In(CDDLType("TypeRule", r.trule),
                         CDDLType("Type", r.trule.value))>>
                      \o SelectSeq(PairsOfType(r.trule.value),
                                   LAMBDA x : <<x.p.ct, x.c.ct>> \in ChainKinds)
               ELSE <<In(CDDLType("Rule", r), CDDLType("GroupRule", r.grule)),
                      In(CDDLType("GroupRule", r.grule),
                         CDDLType("GroupEntry", r.grule.entry))>>)])

\* Every node of the Document equal to x.c has a container equal to x.p.
OneContainer(x) ==
  LET all == PairsOfCDDL(cddl)
  IN \A k \in 1..Len(all) : SameNode(all[k].c, x.c) => SameNode(all[k].p, x.p)

\* The typed parent query on x.c gives x.p.
QueryGivesContainer(x) == parent_of(arena, x.c.ct, x.c.val) = Some(x.p.val)

\* C11 as stated: after the build of any Document, the typed parent query
\* returns the node that directly contains the queried node, for every pair
\* of Claimed.
C11_ParentIsContainer ==
  Built => \A i \in 1..Len(Claimed(cddl)) : QueryGivesContainer(Claimed(cddl)[i])

\* C11: after the build of any Document, for every pair of Claimed the
\* recorded parent of the node is the container of a node of the Document
\* equal to it, and the typed parent query returns the node's direct
\* container whenever all nodes of the Document equal to it have equal
\* containers (always so in a Document without repeated substructure).
C11_ParentIsFirstContainer ==
  Built =>
    \A i \in 1..Len(Claimed(cddl)) :
      LET x == Claimed(cddl)[i]
          all == PairsOfCDDL(cddl)
          rp == parent(arena, x.c)
      IN /\ OneContainer(x) => QueryGivesContainer(x)
         /\ rp # None
         /\ \E k \in 1..Len(all) :
              SameNode(all[k].c, x.c) /\ SameNode(all[k].p, rp[1])

\* A built Document of two rules with a literal value whose direct container
\* the query returns, and with a node that is repeated under different
\* containers, for which the query returns another container.
C11_Witness ==
  /\ Built
  /\ Len(cddl.rules) = 2
  /\ \E i \in 1..Len(Claimed(cddl)) :
       LET x == Claimed(cddl)[i]
       IN x.c.ct = "Value" /\ OneContainer(x) /\ QueryGivesContainer(x)
  /\ \E i \in 1..Len(Claimed(cddl)) :
       LET x == Claimed(cddl)[i]
       IN ~OneContainer(x) /\ ~QueryGivesContainer(x)

\* The arena positions of the records wrapping a node of the given kind.
RecordsOfKind(kind) == {i \in 1..Len(arena) : arena[i].val.ct = kind}

\* The kind of the recorded parent of record i, or "none".
ParentKindOf(i) ==
  IF arena[i].parent = None THEN "none"
  ELSE arena[arena[i].parent[1] + 1].val.ct

\* C12: after the build of any Document, the record of every literal Value
\* has a Type2 record as its recorded parent, and the typed query
\* parent_of(Value) returns a Type2 for every literal value of the
\* Document, values that also occur as member keys included.
C12_ValueParentIsType2 ==
  Built =>
    \A i \in RecordsOfKind("Value") :
      /\ ParentKindOf(i) = "Type2"
      /\ parent_of(arena, "Value", arena[i].val.val) # None

\* C13: after the build of any Document, every arena record except the
\* Document's own has a recorded parent, so the parent lookup returns a
\* parent for every node interned by the walk, generic parameters of a
\* rule included; only the Document has none.
C13_EveryNodeHasParent ==
  Built =>
    \A i \in 1..Len(arena) :
      IF arena[i].val.ct = "CDDL"
        THEN arena[i].parent = None /\ parent(arena, arena[i].val) = None
        ELSE arena[i].parent # None /\ parent(arena, arena[i].val) # None

\* The positions of the records wrapping v whose recorded parent is of the
\* kind pk.
SlotsUnder(v, pk) ==
  {i \in 1..Len(arena) : SameNode(arena[i].val, v) /\ ParentKindOf(i) = pk}

\* C14: after the build of a Document in which an identifier occurs as the
\* name of a type rule and as a typename reference, the two occurrences
\* occupy two different arena records, one whose parent is the TypeRule and
\* one whose parent is the referencing Type2; and every literal value of
\* the Document, however often it occurs under a Type2, occupies one record.
C14_IdentifierRolesDistinct ==
  Built =>
    LET all == PairsOfCDDL(cddl)
    IN /\ \A j, k \in 1..Len(all) :
            (/\ all[j].c.ct = "Identifier" /\ all[j].p.ct = "TypeRule"
             /\ all[k].p.ct = "Type2" /\ SameNode(all[k].c, all[j].c))
              => \E s1 \in SlotsUnder(all[j].c, "TypeRule") :
                   \E s2 \in SlotsUnder(all[j].c, "Type2") : s1 # s2
       /\ \A k \in 1..Len(all) :
            (all[k].c.ct = "Value" /\ all[k].p.ct = "Type2")
              => Cardinality({i \in 1..Len(arena) :
                                SameNode(arena[i].val, all[k].c)}) = 1

\* The innermost call is about to run `self.arena_tree.node(v)`:
\* on entry for `parent`, at a step with a child for `child`.
AtNodeCall ==
  /\ built = "visiting"
  /\ Len(frames) > 0
  /\ \/ TopFrame.pc = 0
     \/ /\ TopFrame.pc <= Len(Body(TopFrame).steps)
        /\ TopFrame.sub = "node"
        /\ Body(TopFrame).steps[TopFrame.pc].child # None

\* The value that call interns.
NodeCallArg ==
  IF TopFrame.pc = 0 THEN Body(TopFrame).self
  ELSE Body(TopFrame).steps[TopFrame.pc].child[1]

\* The index the call returned, read in the next state from the local it
\* was assigned to.
NodeCallResult ==
  IF TopFrame.pc = 0 THEN frames'[Len(frames)].parent
  ELSE frames'[Len(frames)].child

\* No two records wrap equal values and every record's idx is its position.
ArenaWellFormed ==
  \A i \in 1..Len(arena) :
    /\ arena[i].idx = i - 1
    /\ \A j \in 1..Len(arena) : SameNode(arena[i].val, arena[j].val) => i = j

\* C15: ArenaTree::node(v) returns the index of the existing record whose
\* value equals v and leaves the arena unchanged if there is one; otherwise
\* it appends exactly one record, without parent and children, at index =
\* previous arena length, and returns that index.  In every state of the
\* build no two records wrap equal values, each record's idx is its
\* position, and no step removes or re-values a record.
C15_NodeInterns ==
  /\ []ArenaWellFormed
  /\ [][AtNodeCall =>
          IF Interned(NodeCallArg)
            THEN /\ arena' = arena
                 /\ NodeCallResult \in 0..(Len(arena) - 1)
                 /\ SameNode(arena[NodeCallResult + 1].val, NodeCallArg)
            ELSE /\ arena' = Append(arena, [idx |-> Len(arena),
                                            val |-> NodeCallArg,
                                            parent |-> None,
                                            children |-> <<>>])
                 /\ NodeCallResult = Len(arena)]_vars
  /\ [][/\ Len(arena') >= Len(arena)
        /\ \A i \in 1..Len(arena) :
             arena'[i].val = arena[i].val /\ arena'[i].idx = arena[i].idx]_vars

\* A node call has just returned the index of a record interned earlier,
\* which already has a parent, while the arena holds later records.
C15_Witness ==
  /\ built = "visiting"
  /\ Len(frames) > 0
  /\ TopFrame.pc > 0
  /\ TopFrame.sub = "insert"
  /\ TopFrame.child < Len(arena) - 1
  /\ arena[TopFrame.child + 1].parent # None

\* The innermost call is about to run `self.insert(parent, child)?`.
AtInsertCall ==
  /\ built = "visiting"
  /\ Len(frames) > 0
  /\ TopFrame.pc \in 1..Len(Body(TopFrame).steps)
  /\ TopFrame.sub = "insert"

\* C16: every insert(parent, child) of the build succeeds, so that
\* ParentVisitor::new ends with Ok for every Document; it sets the child's
\* parent only when the child has none, so a recorded parent is the same in
\* every later state; and it appends the child to the parent's children on
\* every call, also when the child has another parent already.
C16_InsertFirstParentWins ==
  /\ [](/\ built # "Overwrite"
        /\ Len(frames) = 0 => built = "ok"
        /\ built = "visiting" => Len(frames) > 0)
  /\ [][AtInsertCall =>
          LET p == TopFrame.parent
              c == TopFrame.child
          IN /\ Len(arena') = Len(arena)
             /\ arena'[c + 1].parent =
                  IF arena[c + 1].parent = None THEN Some(p)
                  ELSE arena[c + 1].parent
             /\ arena'[p + 1].children = Append(arena[p + 1].children, c)
             /\ built' = "visiting"]_vars
  /\ [][\A i \in 1..Len(arena) :
          arena[i].parent # None => arena'[i].parent = arena[i].parent]_vars

\* The build is over and some record is in the children of a record that
\* is not its recorded parent: an insert found the parent set and kept it.
C16_Witness ==
  /\ Built
  /\ \E i, q \in 1..Len(arena) :
       /\ arena[i].parent # None
       /\ arena[i].parent[1] # q - 1
       /\ \E k \in 1..Len(arena[q].children) : arena[q].children[k] = i - 1
====
